---- MODULE Spec2Model ----
(***************************************************************************)
(* Model of hotbit/analysis/mulliken.py: the Mulliken population engine    *)
(* (MullikenAnalysis), the spectral engine (DensityOfStates) and the       *)
(* bonding engine (MullikenBondAnalysis).                                  *)
(*                                                                         *)
(* Numbers are exact integers; a complex number is a record [re, im] of    *)
(* integers.  A tolerance test abs(x) < 1E-12 (or 1E-6) on an integer is   *)
(* the test x = 0.  numpy arrays are functions on 0..n-1, Python lists are *)
(* sequences.                                                              *)
(***************************************************************************)
EXTENDS Integers, Sequences, FiniteSets, TLC

VARIABLES el, st, calc, mull, dos, bond, res

vars == <<el, st, calc, mull, dos, bond, res>>

----------------------------------------------------------------------------
(* Bounds of the model *)

MaxK == 2
MaxSeed == 1
MaxNorb == 9
MaxNorbSmall == 4
MaxNorbAll == 2
MaxNpts == 2

(* Unit conversions imported from ase.units, in fixed point *)

Hartree == 27
BohrNum == 529
BohrDen == 1000

----------------------------------------------------------------------------
(* Integer and complex arithmetic *)

Min(a, b) == IF a <= b THEN a ELSE b

Max(a, b) == IF a >= b THEN a ELSE b

Abs(x) == IF x < 0 THEN 0 - x ELSE x

C(r, i) == [re |-> r, im |-> i]

CZero == C(0, 0)

CAdd(x, y) == C(x.re + y.re, x.im + y.im)

CSub(x, y) == C(x.re - y.re, x.im - y.im)

CMul(x, y) == C(x.re * y.re - x.im * y.im, x.re * y.im + x.im * y.re)

CConj(x) == C(x.re, 0 - x.im)

CScale(w, x) == C(w * x.re, w * x.im)

RECURSIVE SumSeq(_)
SumSeq(s) == IF s = <<>> THEN 0 ELSE s[1] + SumSeq(Tail(s))

RECURSIVE CSumSeq(_)
CSumSeq(s) == IF s = <<>> THEN CZero ELSE CAdd(s[1], CSumSeq(Tail(s)))

RECURSIVE MinSeq(_)
MinSeq(s) == IF Len(s) = 1 THEN s[1] ELSE Min(s[1], MinSeq(Tail(s)))

RECURSIVE MaxSeq(_)
MaxSeq(s) == IF Len(s) = 1 THEN s[1] ELSE Max(s[1], MaxSeq(Tail(s)))

RECURSIVE Flatten(_)
Flatten(ss) == IF ss = <<>> THEN <<>> ELSE ss[1] \o Flatten(Tail(ss))

(* range(a, b) as a list *)
PyRange(a, b) == [n \in 1..Max(b - a, 0) |-> a + n - 1]

(* s[a:b] of a list s, 0-based, clipped to the list *)
PySlice(s, a, b) == SubSeq(s, Min(a, Len(s)) + 1, Min(b, Len(s)))

(* arr[0], arr[1], ... of a numpy vector as a list *)
ToList(arr, n) == [m \in 1..n |-> arr[m - 1]]

(* M.transpose() of an n x n matrix *)
Transpose(M, n) == [mu \in 0..(n - 1) |-> [nu \in 0..(n - 1) |-> M[nu][mu]]]

(* A*B, the element-wise product of two n x n matrices *)
Hadamard(A, B, n) == [mu \in 0..(n - 1) |-> [nu \in 0..(n - 1) |-> CMul(A[mu][nu], B[mu][nu])]]

(* np.dot(A, B) of two n x n matrices *)
MatMul(A, B, n) ==
    [mu \in 0..(n - 1) |-> [nu \in 0..(n - 1) |->
        CSumSeq([m \in 1..n |-> CMul(A[mu][m - 1], B[m - 1][nu])])]]

(* np.dot(v, M) of a vector and an n x n matrix *)
VecMat(v, M, n) ==
    [mu \in 0..(n - 1) |-> CSumSeq([m \in 1..n |-> CMul(v[m - 1], M[m - 1][mu])])]

(* M.sum(axis=1) *)
RowSum(M, n) == [mu \in 0..(n - 1) |-> CSumSeq(ToList(M[mu], n))]

----------------------------------------------------------------------------
(* The atom-orbital map calc.el.  el.shells[I+1] lists the angular momenta *)
(* of the shells of atom I in basis order; a shell l carries 2l+1 orbitals.*)

ShellSets == {<<0>>, <<0, 1>>, <<0, 1, 2>>, <<0, 2>>, <<1>>}

ShellAngmoms(l) == [m \in 1..(2 * l + 1) |-> l]

AtomAngmoms(shells) == Flatten([n \in 1..Len(shells) |-> ShellAngmoms(shells[n])])

el_N(e) == Len(e.shells)

el_no(e, I) == e.no[I]

el_o1(e, I) == e.o1[I]

el_norb(e) == Len(e.angmom)

(* calc.el.get_property_lists(['o1','no'])[I] *)
el_property_o1_no(e, I) == <<el_o1(e, I), el_no(e, I)>>

(* calc.el.orbitals(I, indices=True) *)
el_orbitals_indices(e, I) == PyRange(el_o1(e, I), el_o1(e, I) + el_no(e, I))

(* [orb['angmom'] for orb in calc.el.orbitals()] *)
el_orbitals_angmom(e) == e.angmom

(* calc.el.orbitals(mu, basis=True)['energy'] *)
el_orbital_energy(e, mu) == e.energy[mu]

(* calc.el.get_free_population(mu) *)
el_get_free_population(e, mu) == e.q0[mu]

(* calc.el.get_valences() *)
el_get_valences(e) == e.valence

RECURSIVE ShellLists(_)
ShellLists(n) ==
    IF n = 0 THEN {<<>>}
    ELSE {Append(s, a) : s \in ShellLists(n - 1), a \in ShellSets}

ElOf(shells) ==
    LET angs == Flatten([J \in 1..Len(shells) |-> AtomAngmoms(shells[J])])
        n == Len(angs)
        no == [I \in 0..(Len(shells) - 1) |-> Len(AtomAngmoms(shells[I + 1]))]
    IN [shells |-> shells,
        angmom |-> angs,
        no |-> no,
        o1 |-> [I \in 0..(Len(shells) - 1) |-> SumSeq([J \in 1..I |-> no[J - 1]])],
        energy |-> [mu \in 0..(n - 1) |-> 0 - 2 * (3 - angs[mu + 1]) - 2 * (mu % 2)],
        q0 |-> [mu \in 0..(n - 1) |-> IF angs[mu + 1] = 0 THEN 1 ELSE 0],
        valence |-> [I \in 0..(Len(shells) - 1) |-> Len(shells[I + 1])]]

ElSet(shellsets) == {ElOf(s) : s \in shellsets}

----------------------------------------------------------------------------
(* Electronic-state snapshots calc.st.  The entries of rho, S, H0 and wf   *)
(* are small Gaussian integers generated from a seed; kind selects real    *)
(* symmetric, Hermitian or unconstrained complex matrices.                 *)

Kinds == {"real", "hermitian", "general"}

Raw(seed, salt, k, a, b) ==
    LET h == seed * 7 + salt * 3 + k * 5 + a * 11 + b * 13 + a * b * (seed + 1)
    IN C((h % 3) - 1, ((h \div 3) % 3) - 1)

Entry(kind, seed, salt, k, mu, nu) ==
    CASE kind = "general" -> Raw(seed, salt, k, mu, nu)
      [] kind = "hermitian" ->
            IF mu = nu THEN C(Raw(seed, salt, k, mu, mu).re, 0)
            ELSE IF mu < nu THEN Raw(seed, salt, k, mu, nu)
            ELSE CConj(Raw(seed, salt, k, nu, mu))
      [] kind = "real" ->
            IF mu <= nu THEN C(Raw(seed, salt, k, mu, nu).re, 0)
            ELSE C(Raw(seed, salt, k, nu, mu).re, 0)

GenMat(kind, seed, salt, k, n) ==
    [mu \in 0..(n - 1) |-> [nu \in 0..(n - 1) |-> Entry(kind, seed, salt, k, mu, nu)]]

GenWf(kind, seed, k, n) ==
    [a \in 0..(n - 1) |-> [mu \in 0..(n - 1) |->
        IF kind = "real" THEN C(Raw(seed, 4, k, a, mu).re, 0) ELSE Raw(seed, 4, k, a, mu)]]

StOf(e, kind, seed, wk) ==
    LET n == el_norb(e)
        nk == Len(wk)
        N == el_N(e)
    IN [nk |-> nk,
        wk |-> [k \in 0..(nk - 1) |-> wk[k + 1]],
        norb |-> n,
        rho |-> [k \in 0..(nk - 1) |-> GenMat(kind, seed, 1, k, n)],
        S |-> [k \in 0..(nk - 1) |-> GenMat(kind, seed, 2, k, n)],
        H0 |-> [k \in 0..(nk - 1) |-> GenMat(kind, seed, 3, k, n)],
        wf |-> [k \in 0..(nk - 1) |-> GenWf(kind, seed, k, n)],
        e |-> [k \in 0..(nk - 1) |-> [a \in 0..(n - 1) |-> ((seed + k + a) % 3) - 1]],
        f |-> [k \in 0..(nk - 1) |-> [a \in 0..(n - 1) |-> IF ((seed + k + a) % 3) = 2 THEN 0 ELSE 2]],
        dq |-> [I \in 0..(N - 1) |-> ((seed + I) % 3) - 1],
        mu |-> seed % 2,
        G |-> [I \in 0..(N - 1) |-> [J \in 0..(N - 1) |-> 2 * (1 + ((I + J + seed) % 2))]]]

(* k-point weights, a different weight for every k-point *)
WkLists(n) == {[k \in 1..n |-> k]}

WkSet == UNION {WkLists(n) : n \in 1..MaxK}

(* The calculator: SCC switch, gamma_cut, and the pair-energy providers    *)
(* calc.rep.get_pair_repulsive_energy and calc.pp.get_pair_energy.         *)
CalcOf(e, scc, seed) ==
    [SCC |-> scc,
     gamma_cut |-> 2,
     rep |-> [I \in 0..(el_N(e) - 1) |-> [J \in 0..(el_N(e) - 1) |-> 2 * ((I + J + seed) % 2)]],
     pp |-> [I \in 0..(el_N(e) - 1) |-> [J \in 0..(el_N(e) - 1) |-> 2 * ((I * J + seed) % 2)]]]

(* calc.st.get_eigenvalues() *)
st_get_eigenvalues(s) == s.e

(* calc.get_fermi_level(), in eV *)
calc_get_fermi_level(s) == s.mu * Hartree

----------------------------------------------------------------------------
(* MullikenAnalysis.__init__ *)

DiagImag(s) ==
    LET diag_k(k) == RowSum(Hadamard(s.rho[k], Transpose(s.S[k], s.norb), s.norb), s.norb)
    IN [mu \in 0..(s.norb - 1) |->
           SumSeq([k \in 1..s.nk |-> s.wk[k - 1] * diag_k(k - 1)[mu].im])]

Diag(s) ==
    LET diag_k(k) == RowSum(Hadamard(s.rho[k], Transpose(s.S[k], s.norb), s.norb), s.norb)
    IN [mu \in 0..(s.norb - 1) |->
           SumSeq([k \in 1..s.nk |-> s.wk[k - 1] * diag_k(k - 1)[mu].re])]

AuxNoTranspose(s) ==
    [k \in 0..(s.nk - 1) |-> [a \in 0..(s.norb - 1) |->
        LET wfc == [mu \in 0..(s.norb - 1) |-> CConj(s.wf[k][a][mu])]
            d == VecMat(s.wf[k][a], s.S[k], s.norb)
        IN [mu \in 0..(s.norb - 1) |-> CMul(wfc[mu], d[mu]).re]]]

Aux(s) ==
    [k \in 0..(s.nk - 1) |-> [a \in 0..(s.norb - 1) |->
        LET wfc == [mu \in 0..(s.norb - 1) |-> CConj(s.wf[k][a][mu])]
            d == VecMat(s.wf[k][a], Transpose(s.S[k], s.norb), s.norb)
        IN [mu \in 0..(s.norb - 1) |-> CMul(wfc[mu], d[mu]).re]]]

MullikenAnalysis_init(e, s) ==
    [N |-> el_N(e),
     nk |-> s.nk,
     wk |-> s.wk,
     norb |-> s.norb,
     diag |-> Diag(s),
     aux |-> Aux(s)]

----------------------------------------------------------------------------
(* Queries of MullikenAnalysis, as functions of the engine *)

(* calls lists the collaborators a query invoked before it returned or raised *)
ResultC(op, args, err, value, calls) ==
    [op |-> op, args |-> args, err |-> err, value |-> value, calls |-> calls]

Result(op, args, err, value) == ResultC(op, args, err, value, <<>>)

NoResult == Result("none", <<>>, "none", <<>>)

(* None is the empty tuple; an optional argument x that is given is <<x>>, *)
(* an energy window is <<lo, hi>>                                          *)
None == <<>>

(* the s, p, d split shared by get_atom_all_angmom_mulliken and            *)
(* get_atom_wf_all_angmom_mulliken: all is the list of orbital populations *)
AngmomPopShortP(all) ==
    <<all[1],
      IF Len(all) > 1 THEN SumSeq(PySlice(all, 1, 3)) ELSE 0,
      IF Len(all) > 4 THEN SumSeq(PySlice(all, 4, Len(all))) ELSE 0>>

AngmomPop(all) ==
    <<all[1],
      IF Len(all) > 1 THEN SumSeq(PySlice(all, 1, 4)) ELSE 0,
      IF Len(all) > 4 THEN SumSeq(PySlice(all, 4, Len(all))) ELSE 0>>

get_atoms_mulliken ==
    [I \in 0..(el_N(el) - 1) |->
        LET o1 == el_property_o1_no(el, I)[1]
            no == el_property_o1_no(el, I)[2]
        IN SumSeq(PySlice(ToList(mull.diag, mull.norb), o1, o1 + no)) - el_get_valences(el)[I]]

get_atom_mulliken_to_end(I) ==
    LET orbs == PyRange(el_o1(el, I), mull.norb)
    IN SumSeq([n \in 1..Len(orbs) |-> mull.diag[orbs[n]]])

get_atom_mulliken(I) ==
    LET orbs == el_orbitals_indices(el, I)
    IN SumSeq([n \in 1..Len(orbs) |-> mull.diag[orbs[n]]])

get_basis_mulliken(mu) == mull.diag[mu]

get_atom_all_angmom_mulliken(I) ==
    LET orbs == el_orbitals_indices(el, I)
        all == [n \in 1..Len(orbs) |-> mull.diag[orbs[n]]]
    IN AngmomPop(all)

get_basis_wf_mulliken(mu, k, a, wk) ==
    LET w == IF wk THEN mull.wk[k] ELSE 1
    IN w * mull.aux[k][a][mu]

get_atom_wf_mulliken(I, k, a, wk) ==
    LET w == IF wk THEN mull.wk[k] ELSE 1
        orbs == el_orbitals_indices(el, I)
    IN w * SumSeq([n \in 1..Len(orbs) |-> mull.aux[k][a][orbs[n]]])

get_atom_wf_all_orbital_mulliken(I, k, a, wk) ==
    LET w == IF wk THEN mull.wk[k] ELSE 1
        orbs == el_orbitals_indices(el, I)
    IN [n \in 1..Len(orbs) |-> w * mull.aux[k][a][orbs[n]]]

get_atom_wf_all_angmom_mulliken(I, k, a, wk) ==
    AngmomPop(get_atom_wf_all_orbital_mulliken(I, k, a, wk))

----------------------------------------------------------------------------
(* Actions: one per query.  A query records what it returned (or raised)   *)
(* in res.                                                                 *)

AtomIdx == 0..(el_N(el) - 1)
OrbIdx == 0..(st.norb - 1)
KIdx == 0..(st.nk - 1)

Frame == UNCHANGED <<el, st, calc, mull, dos, bond>>

(* the caller issues one query at a time and takes its result before the next *)
Idle == res.op = "none"

TakeResult ==
    /\ ~Idle
    /\ res' = NoResult
    /\ Frame

GetAtomsMulliken ==
    /\ Idle
    /\ res' = Result("get_atoms_mulliken", <<>>, "none", ToList(get_atoms_mulliken, el_N(el)))
    /\ Frame

GetAtomMulliken ==
    \E I \in AtomIdx :
        /\ Idle
        /\ res' = Result("get_atom_mulliken", <<I>>, "none", <<get_atom_mulliken(I)>>)
        /\ Frame

GetBasisMulliken ==
    \E mu \in OrbIdx :
        /\ Idle
        /\ res' = Result("get_basis_mulliken", <<mu>>, "none", <<get_basis_mulliken(mu)>>)
        /\ Frame

GetAtomAllAngmomMulliken ==
    \E I \in AtomIdx :
        /\ Idle
        /\ res' = Result("get_atom_all_angmom_mulliken", <<I>>, "none", get_atom_all_angmom_mulliken(I))
        /\ Frame

GetBasisWfMulliken ==
    \E mu \in OrbIdx, k \in KIdx, a \in OrbIdx, wk \in BOOLEAN :
        /\ Idle
        /\ res' = Result("get_basis_wf_mulliken", <<mu, k, a, wk>>, "none",
                         <<get_basis_wf_mulliken(mu, k, a, wk)>>)
        /\ Frame

GetAtomWfMulliken ==
    \E I \in AtomIdx, k \in KIdx, a \in OrbIdx, wk \in BOOLEAN :
        /\ Idle
        /\ res' = Result("get_atom_wf_mulliken", <<I, k, a, wk>>, "none",
                         <<get_atom_wf_mulliken(I, k, a, wk)>>)
        /\ Frame

GetAtomWfMullikenAll ==
    \E k \in KIdx, a \in OrbIdx, wk \in BOOLEAN :
        /\ Idle
        /\ res' = Result("get_atom_wf_mulliken(None)", <<k, a, wk>>, "none",
                         [n \in 1..mull.N |-> get_atom_wf_mulliken(n - 1, k, a, wk)])
        /\ Frame

GetAtomWfAllOrbitalMulliken ==
    \E I \in AtomIdx, k \in KIdx, a \in OrbIdx, wk \in BOOLEAN :
        /\ Idle
        /\ res' = Result("get_atom_wf_all_orbital_mulliken", <<I, k, a, wk>>, "none",
                         get_atom_wf_all_orbital_mulliken(I, k, a, wk))
        /\ Frame

GetAtomWfAllAngmomMulliken ==
    \E I \in AtomIdx, k \in KIdx, a \in OrbIdx, wk \in BOOLEAN :
        /\ Idle
        /\ res' = Result("get_atom_wf_all_angmom_mulliken", <<I, k, a, wk>>, "none",
                         get_atom_wf_all_angmom_mulliken(I, k, a, wk))
        /\ Frame

PopQuery ==
    \/ GetAtomsMulliken
    \/ GetAtomMulliken
    \/ GetBasisMulliken
    \/ GetAtomAllAngmomMulliken
    \/ GetBasisWfMulliken
    \/ GetAtomWfMulliken
    \/ GetAtomWfMullikenAll
    \/ GetAtomWfAllOrbitalMulliken
    \/ GetAtomWfAllAngmomMulliken

----------------------------------------------------------------------------
(* box.mix.broaden(x, y, width, N, a, b): every sample (x[n], y[n]) adds a *)
(* Gaussian of the given width centred at x[n] and scaled by y[n] to N     *)
(* evenly spaced grid points spanning [a, b].  Gauss is a fixed-point      *)
(* Gaussian profile.                                                       *)

Gauss(d, width) ==
    LET q == (d * d) \div (width * width)
    IN IF q = 0 THEN 4 ELSE IF q <= 2 THEN 2 ELSE IF q <= 8 THEN 1 ELSE 0

Linspace(a, b, N) == [g \in 1..N |-> a + ((g - 1) * (b - a)) \div (N - 1)]

Broaden(x, y, width, N, a, b) ==
    LET xgrid == Linspace(a, b, N)
    IN [x |-> xgrid,
        y |-> [g \in 1..N |->
                 SumSeq([n \in 1..Len(x) |-> y[n] * Gauss(xgrid[g] - x[n], width)])]]

----------------------------------------------------------------------------
(* DensityOfStates.__init__ *)

NoEngine == [cls |-> "none"]

DensityOfStates_init(e, s) ==
    LET ev == [k \in 0..(s.nk - 1) |-> [a \in 0..(s.norb - 1) |->
                  st_get_eigenvalues(s)[k][a] * Hartree - calc_get_fermi_level(s)]]
        eflat == Flatten([k \in 1..s.nk |-> ToList(ev[k - 1], s.norb)])
    IN [cls |-> "DensityOfStates",
        e |-> ev,
        eflat |-> eflat,
        emin |-> MinSeq(eflat),
        emax |-> MaxSeq(eflat)]

----------------------------------------------------------------------------
(* DensityOfStates.get_local_density_of_states *)

(* all (k, a) in loop order, k outer and a inner *)
AllStates == Flatten([k \in 1..mull.nk |-> [a \in 1..mull.norb |-> <<k - 1, a - 1>>]])

Bounds(window) ==
    IF window # None THEN <<window[1], window[2]>> ELSE <<dos.emin, dos.emax>>

get_local_density_of_states(projected, width, window, npts) ==
    LET mn == Bounds(window)[1]
        mx == Bounds(window)[2]
        InWindow(ka) == mn <= dos.e[ka[1]][ka[2]] /\ dos.e[ka[1]][ka[2]] <= mx
        kal == SelectSeq(AllStates, InWindow)
        elist == [n \in 1..Len(kal) |-> dos.e[kal[n][1]][kal[n][2]]]
        q == [i \in 1..mull.N |-> [n \in 1..Len(kal) |->
                 get_atom_wf_mulliken(i - 1, kal[n][1], kal[n][2], TRUE)]]
        b == [i \in 1..mull.N |-> Broaden(elist, q[i], width, npts, mn, mx)]
        egrid == b[1].x
        ldos == [i \in 1..mull.N |-> b[i].y]
        qp == [i \in 1..mull.N |-> [n \in 1..Len(kal) |->
                  get_atom_wf_all_angmom_mulliken(i - 1, kal[n][1], kal[n][2], TRUE)]]
        pldos == [i \in 1..mull.N |-> [l \in 1..3 |->
                     Broaden(elist, [n \in 1..Len(kal) |-> qp[i][n][l]],
                             width, npts, mn, mx).y]]
        consistent == \A i \in 1..mull.N : \A g \in 1..npts :
                         Abs(ldos[i][g] - (pldos[i][1][g] + pldos[i][2][g] + pldos[i][3][g])) = 0
    IN IF ~projected
       THEN [err |-> "none", value |-> <<egrid, ldos>>, calls |-> <<"mix.broaden">>]
       ELSE IF kal = <<>>
       THEN \* q = np.array([]) is one-dimensional: q[:,l] raises
            [err |-> "IndexError", value |-> <<>>, calls |-> <<"mix.broaden">>]
       ELSE IF ~consistent
       THEN [err |-> "AssertionError_pldos", value |-> <<>>, calls |-> <<"mix.broaden">>]
       ELSE [err |-> "none", value |-> <<egrid, ldos, pldos>>, calls |-> <<"mix.broaden">>]

----------------------------------------------------------------------------
(* DensityOfStates.get_density_of_states *)

OccuConflictBroadenOnly(broaden, projected, occu) == broaden /\ occu

OccuConflict(broaden, projected, occu) == (broaden /\ occu) \/ (projected /\ occu)

get_density_of_states(broaden, projected, occu, width, window, npts) ==
    LET mn == Bounds(window)[1]
        mx == Bounds(window)[2]
        x == Flatten([a \in 1..st.norb |-> [k \in 1..mull.nk |-> dos.e[k - 1][a - 1]]])
        y == Flatten([a \in 1..st.norb |-> ToList(st.wk, st.nk)])
        f == Flatten([a \in 1..st.norb |-> [k \in 1..st.nk |-> st.f[k - 1][a - 1]]])
        l == get_local_density_of_states(TRUE, width, window, npts)
        b == Broaden(x, y, width, npts, mn, mx)
        AtomSum(curves) == [g \in 1..npts |-> SumSeq([i \in 1..mull.N |-> curves[i][g]])]
    IN IF OccuConflict(broaden, projected, occu)
       THEN [err |-> "AssertionError_occu", value |-> <<>>, calls |-> <<>>]
       ELSE IF projected
       THEN IF l.err # "none"
            THEN [err |-> l.err, value |-> <<>>,
                  calls |-> <<"get_local_density_of_states">> \o l.calls]
            ELSE [err |-> "none",
                  value |-> <<l.value[1], AtomSum(l.value[2]),
                              [a \in 1..3 |-> AtomSum([i \in 1..mull.N |-> l.value[3][i][a]])]>>,
                  calls |-> <<"get_local_density_of_states">> \o l.calls]
       ELSE IF broaden
       THEN [err |-> "none", value |-> <<b.x, b.y>>, calls |-> <<"mix.broaden">>]
       ELSE IF occu
       THEN [err |-> "none", value |-> <<x, y, f>>, calls |-> <<>>]
       ELSE [err |-> "none", value |-> <<x, y>>, calls |-> <<>>]

(* argument values of the spectral queries, in eV *)
WinVals == {0 - 1, 0, 1}

Windows ==
    {None} \cup {w \in {<<lo * Hartree, hi * Hartree>> : lo \in WinVals, hi \in WinVals} :
                    w[1] <= w[2]}

Widths == {Hartree}

Npts == 2..MaxNpts

GetDensityOfStates ==
    \E broaden \in BOOLEAN, projected \in BOOLEAN, occu \in BOOLEAN,
       width \in Widths, window \in Windows, npts \in Npts :
        LET r == get_density_of_states(broaden, projected, occu, width, window, npts)
        IN /\ Idle
           /\ res' = ResultC("get_density_of_states",
                             <<broaden, projected, occu, width, window, npts>>,
                             r.err, r.value, r.calls)
           /\ Frame

GetLocalDensityOfStates ==
    \E projected \in BOOLEAN, width \in Widths, window \in Windows, npts \in Npts :
        LET r == get_local_density_of_states(projected, width, window, npts)
        IN /\ Idle
           /\ res' = ResultC("get_local_density_of_states",
                             <<projected, width, window, npts>>, r.err, r.value, r.calls)
           /\ Frame

DosQuery ==
    \/ GetDensityOfStates
    \/ GetLocalDensityOfStates

----------------------------------------------------------------------------
(* MullikenBondAnalysis.__init__ *)

Half(x) == x \div 2

MullikenBondAnalysis_init(e, s, c) ==
    LET n == s.norb
        epsilon == [mu \in 0..(n - 1) |-> el_orbital_energy(e, mu)]
        aux == [mu \in 0..(n - 1) |-> [nu \in 0..(n - 1) |-> epsilon[mu]]]
        eps == [mu \in 0..(n - 1) |-> [nu \in 0..(n - 1) |-> Half(aux[mu][nu] + aux[nu][mu])]]
        HSk(k) == [mu \in 0..(n - 1) |-> [nu \in 0..(n - 1) |->
                      CSub(s.H0[k][mu][nu], CScale(eps[mu][nu], s.S[k][mu][nu]))]]
    IN [cls |-> "MullikenBondAnalysis",
        rhoSk |-> [k \in 0..(s.nk - 1) |-> MatMul(s.rho[k], s.S[k], n)],
        rhoM |-> [k \in 0..(s.nk - 1) |-> Hadamard(s.rho[k], Transpose(HSk(k), n), n)],
        HS |-> [k \in 0..(s.nk - 1) |-> HSk(k)],
        epsilon |-> epsilon,
        SCC |-> c.SCC,
        solver |-> None]

----------------------------------------------------------------------------
(* Queries of MullikenBondAnalysis *)

Raise(err) == [err |-> err, value |-> <<>>]

Return(value) == [err |-> "none", value |-> value]

MayerTermSquare(k, mu, nu) ==
    CScale(mull.wk[k], CMul(bond.rhoSk[k][mu][nu], bond.rhoSk[k][mu][nu]))

MayerTerm(k, mu, nu) ==
    CScale(mull.wk[k], CMul(bond.rhoSk[k][mu][nu], bond.rhoSk[k][nu][mu]))

get_mayer_bond_order(i, j, isint) ==
    LET orbi == el_orbitals_indices(el, i)
        orbj == el_orbitals_indices(el, j)
        M == CSumSeq([k \in 1..mull.nk |->
                 CSumSeq([m \in 1..Len(orbi) |-> CSumSeq([n \in 1..Len(orbj) |->
                     MayerTerm(k - 1, orbi[m], orbj[n])])])])
    IN IF ~isint THEN Raise("AssertionError_type")
       ELSE IF ~(Abs(M.im) = 0) THEN Raise("AssertionError_imag")
       ELSE Return(<<M.re>>)

get_promotion_energy(I) ==
    LET orbs == el_orbitals_indices(el, I)
        e == SumSeq([n \in 1..Len(orbs) |->
                 (get_basis_mulliken(orbs[n]) - el_get_free_population(el, orbs[n]))
                     * el_orbital_energy(el, orbs[n])])
    IN Return(<<e * Hartree>>)

(* DirectCoulomb(cut).update(atoms, dq); get_potential()[I]: the potential *)
(* at atom I of the charge fluctuations of the other atoms                 *)
solver_get_potential(solver, I) ==
    2 * BohrDen * SumSeq([J \in 1..mull.N |-> IF J - 1 = I THEN 0 ELSE solver.dq[J - 1]])

DirectCoulomb(cut, dq) == [cut |-> cut, dq |-> dq]

TimesBohr(x) == (x * BohrNum) \div BohrDen

(* sum of the block [o1i:o1i+noi, o1j:o1j+noj] of rhoM[k] *)
RhoMBlock(k, o1i, noi, o1j, noj) ==
    CSumSeq([m \in 1..noi |-> CSumSeq([n \in 1..noj |->
        bond.rhoM[k][o1i + m - 1][o1j + n - 1]])])

get_atom_energy(I) ==
    LET solver == DirectCoulomb(calc.gamma_cut, st.dq)
        coul == IF bond.SCC
                THEN Half(st.G[I][I] * st.dq[I] * st.dq[I])
                     + TimesBohr(Half(st.dq[I] * solver_get_potential(solver, I)))
                ELSE 0
        o1 == el_property_o1_no(el, I)[1]
        no == el_property_o1_no(el, I)[2]
        eorb == CSumSeq([k \in 1..mull.nk |->
                    CScale(mull.wk[k - 1], RhoMBlock(k - 1, o1, no, o1, no))])
        erep == calc.rep[I][I]
        epp == calc.pp[I][I]
        prom == get_promotion_energy(I)
        A == CAdd(CScale(Hartree, CAdd(C(coul + erep + epp, 0), eorb)), C(prom.value[1], 0))
    IN IF prom.err # "none" THEN prom
       ELSE IF ~(Abs(A.im) = 0) THEN Raise("AssertionError_imag")
       ELSE Return(<<A.re>>)

(* self.solver after get_atom_energy *)
SolverAfterAtomEnergy ==
    IF bond.SCC THEN <<DirectCoulomb(calc.gamma_cut, st.dq)>> ELSE bond.solver

RECURSIVE CollectUntilError(_)
(* [f(i) for i in ...]: the list of values, or the first error raised *)
CollectUntilError(rs) ==
    IF rs = <<>> THEN Return(<<>>)
    ELSE IF rs[1].err # "none" THEN rs[1]
    ELSE LET rest == CollectUntilError(Tail(rs))
         IN IF rest.err # "none" THEN rest ELSE Return(rs[1].value \o rest.value)

get_bond_energy(i, j) ==
    LET rep == calc.rep[i][j]
        epp == calc.pp[i][j]
        coul == IF bond.SCC THEN st.G[i][j] * st.dq[i] * st.dq[j] ELSE 0
        o1i == el_property_o1_no(el, i)[1]
        noi == el_property_o1_no(el, i)[2]
        o1j == el_property_o1_no(el, j)[1]
        noj == el_property_o1_no(el, j)[2]
        ebs == SumSeq([k \in 1..mull.nk |->
                   2 * mull.wk[k - 1] *
                   SumSeq([m \in 1..noi |-> SumSeq([n \in 1..noj |->
                       bond.rhoM[k - 1][o1i + m - 1][o1j + n - 1].re])])])
    IN Return(<<(rep + epp + coul + ebs) * Hartree>>)

get_atom_and_bond_energy(i) ==
    LET ea == get_atom_energy(i)
        eb == SumSeq([j \in 1..mull.N |->
                  IF j - 1 = i THEN 0 ELSE Half(get_bond_energy(i, j - 1).value[1])])
    IN IF ea.err # "none" THEN ea ELSE Return(<<ea.value[1] + eb>>)

----------------------------------------------------------------------------
(* MullikenBondAnalysis.get_covalent_energy *)

eps == 0   \* the 1E-6 pad of the default window, below the integer resolution

CovModes == {"default", "orbitals", "atoms", "angmom"}

(* lorbs[l]: the orbitals with angular momentum l *)
lorbs(l) ==
    LET angs == el_orbitals_angmom(el)
    IN SelectSeq([m \in 1..Len(angs) |-> m - 1], LAMBDA m : angs[m + 1] = l)

(* wf[k,a,m]*wf[k,a,n].conj()*HS[k,n,m] *)
CovTerm(k, a, m, n) ==
    CMul(CMul(st.wf[k][a][m], CConj(st.wf[k][a][n])), bond.HS[k][n][m])

CovDefaultUnweighted(k, a) ==
    CSumSeq([m \in 1..mull.norb |->
        CSumSeq([n \in 1..mull.norb |-> CovTerm(k, a, m - 1, n - 1)])])

CovDefault(k, a) ==
    CSumSeq([m \in 1..mull.norb |->
        CScale(mull.wk[k], CSumSeq([n \in 1..mull.norb |-> CovTerm(k, a, m - 1, n - 1)]))])

CovOrbitals(k, a, i, j) ==
    IF i # j THEN C(mull.wk[k] * 2 * CovTerm(k, a, i, j).re, 0)
    ELSE CScale(mull.wk[k], CovTerm(k, a, i, j))

CovAtomsAlwaysDoubled(k, a, i, j) ==
    LET o1i == el_property_o1_no(el, i)[1]
        noi == el_property_o1_no(el, i)[2]
        o1j == el_property_o1_no(el, j)[1]
        noj == el_property_o1_no(el, j)[2]
        ri == PyRange(o1i, o1i + noi)
        rj == PyRange(o1j, o1j + noj)
    IN CSumSeq([m \in 1..Len(ri) |-> CSumSeq([n \in 1..Len(rj) |->
           CScale(mull.wk[k] * 2, CovTerm(k, a, ri[m], rj[n]))])])

CovAtoms(k, a, i, j) ==
    LET o1i == el_property_o1_no(el, i)[1]
        noi == el_property_o1_no(el, i)[2]
        o1j == el_property_o1_no(el, j)[1]
        noj == el_property_o1_no(el, j)[2]
        ri == PyRange(o1i, o1i + noi)
        rj == PyRange(o1j, o1j + noj)
    IN IF i # j
       THEN CSumSeq([m \in 1..Len(ri) |-> CSumSeq([n \in 1..Len(rj) |->
                C(mull.wk[k] * 2 * CovTerm(k, a, ri[m], rj[n]).re, 0)])])
       ELSE CSumSeq([m \in 1..Len(ri) |-> CSumSeq([n \in 1..Len(rj) |->
                CScale(mull.wk[k], CovTerm(k, a, ri[m], rj[n]))])])

CovAngmom(k, a, i, j) ==
    LET oi == lorbs(i)
        oj == lorbs(j)
        e == CSumSeq([m \in 1..Len(oi) |->
                 CScale(mull.wk[k],
                        CSumSeq([n \in 1..Len(oj) |-> CovTerm(k, a, oi[m], oj[n])]))])
    IN IF i # j THEN CAdd(e, CConj(e)) ELSE e

CovValue(mode, k, a, i, j) ==
    CASE mode = "default" -> CovDefault(k, a)
      [] mode = "orbitals" -> CovOrbitals(k, a, i, j)
      [] mode = "atoms" -> CovAtoms(k, a, i, j)
      [] mode = "angmom" -> CovAngmom(k, a, i, j)

CovBounds(window) ==
    LET energy == Flatten([k \in 1..st.nk |-> [a \in 1..st.norb |-> st.e[k - 1][a - 1] - st.mu]])
    IN IF window = None
       THEN <<MinSeq(energy) - eps, MaxSeq(energy) + eps>>
       ELSE <<window[1] \div Hartree, window[2] \div Hartree>>

get_covalent_energy(mode, i, j, width, window, npts) ==
    LET mn == CovBounds(window)[1]
        mx == CovBounds(window)[2]
        energy(ka) == st.e[ka[1]][ka[2]] - st.mu
        kal == SelectSeq(AllStates, LAMBDA ka : mn <= energy(ka) /\ energy(ka) <= mx)
        x == [n \in 1..Len(kal) |-> energy(kal[n])]
        y == [n \in 1..Len(kal) |-> CovValue(mode, kal[n][1], kal[n][2], i, j)]
        yreal == [n \in 1..Len(kal) |-> y[n].re]
        b == Broaden(x, yreal, width[1] \div Hartree, npts, mn, mx)
    IN IF kal # <<>> /\ mode \notin CovModes THEN Raise("NotImplementedError")
       ELSE IF \E n \in 1..Len(kal) : ~(Abs(y[n].im) = 0) THEN Raise("AssertionError_imag")
       ELSE IF width = None
       THEN Return(<<[n \in 1..Len(kal) |-> x[n] * Hartree],
                     [n \in 1..Len(kal) |-> yreal[n] * Hartree]>>)
       ELSE Return(<<[g \in 1..npts |-> b.x[g] * Hartree],
                     [g \in 1..npts |-> b.y[g] * Hartree]>>)

----------------------------------------------------------------------------
(* Actions of the bonding engine *)

GetMayerBondOrder ==
    \E i \in AtomIdx, j \in AtomIdx, isint \in BOOLEAN :
        LET r == get_mayer_bond_order(i, j, isint)
        IN /\ Idle
           /\ res' = Result("get_mayer_bond_order", <<i, j, isint>>, r.err, r.value)
           /\ Frame

GetAtomEnergy ==
    \E I \in AtomIdx :
        LET r == get_atom_energy(I)
        IN /\ Idle
           /\ res' = Result("get_atom_energy", <<I>>, r.err, r.value)
           /\ bond' = [bond EXCEPT !.solver = SolverAfterAtomEnergy]
           /\ UNCHANGED <<el, st, calc, mull, dos>>

GetAtomEnergyAll ==
    LET r == CollectUntilError([i \in 1..mull.N |-> get_atom_energy(i - 1)])
    IN /\ Idle
       /\ res' = Result("get_atom_energy(None)", <<>>, r.err, r.value)
       /\ bond' = [bond EXCEPT !.solver = SolverAfterAtomEnergy]
       /\ UNCHANGED <<el, st, calc, mull, dos>>

GetPromotionEnergy ==
    \E I \in AtomIdx :
        LET r == get_promotion_energy(I)
        IN /\ Idle
           /\ res' = Result("get_promotion_energy", <<I>>, r.err, r.value)
           /\ Frame

GetPromotionEnergyAll ==
    LET r == CollectUntilError([i \in 1..mull.N |-> get_promotion_energy(i - 1)])
    IN /\ Idle
       /\ res' = Result("get_promotion_energy(None)", <<>>, r.err, r.value)
       /\ Frame

GetBondEnergy ==
    \E i \in AtomIdx, j \in AtomIdx :
        LET r == get_bond_energy(i, j)
        IN /\ Idle
           /\ res' = Result("get_bond_energy", <<i, j>>, r.err, r.value)
           /\ Frame

GetAtomAndBondEnergy ==
    \E i \in AtomIdx :
        LET r == get_atom_and_bond_energy(i)
        IN /\ Idle
           /\ res' = Result("get_atom_and_bond_energy", <<i>>, r.err, r.value)
           /\ bond' = [bond EXCEPT !.solver = SolverAfterAtomEnergy]
           /\ UNCHANGED <<el, st, calc, mull, dos>>

GetAtomAndBondEnergyAll ==
    LET r == CollectUntilError([j \in 1..mull.N |-> get_atom_and_bond_energy(j - 1)])
    IN /\ Idle
       /\ res' = Result("get_atom_and_bond_energy(None)", <<>>, r.err, r.value)
       /\ bond' = [bond EXCEPT !.solver = SolverAfterAtomEnergy]
       /\ UNCHANGED <<el, st, calc, mull, dos>>

(* the index arguments i, j a mode is called with *)
CovIdx(mode) ==
    CASE mode = "orbitals" -> OrbIdx
      [] mode = "atoms" -> AtomIdx
      [] mode = "angmom" -> {l \in 0..2 : lorbs(l) # <<>>}
      [] OTHER -> {0}

CovWindows == Windows

(* width and npts: npts only matters with broadening *)
CovWidthNpts == {<<None, 2>>} \cup {<<<<w>>, n>> : w \in Widths, n \in Npts}

GetCovalentEnergy ==
    \E mode \in CovModes \cup {"bogus"}, wn \in CovWidthNpts, window \in CovWindows :
        \E i \in CovIdx(mode), j \in CovIdx(mode), width \in {wn[1]}, npts \in {wn[2]} :
            LET r == get_covalent_energy(mode, i, j, width, window, npts)
            IN /\ Idle
               /\ res' = Result("get_covalent_energy", <<mode, i, j, width, window, npts>>,
                                r.err, r.value)
               /\ Frame

BondQuery ==
    \/ GetMayerBondOrder
    \/ GetAtomEnergy
    \/ GetAtomEnergyAll
    \/ GetPromotionEnergy
    \/ GetPromotionEnergyAll
    \/ GetBondEnergy
    \/ GetAtomAndBondEnergy
    \/ GetAtomAndBondEnergyAll
    \/ GetCovalentEnergy

----------------------------------------------------------------------------
(* Construction and the specifications *)

NorbOf(shells) == Len(Flatten([J \in 1..Len(shells) |-> AtomAngmoms(shells[J])]))

(* one atom or two atoms, with at most cap orbitals in all *)
ShellListsUpTo(cap) ==
    {s \in ShellLists(1) \cup ShellLists(2) : NorbOf(s) <= cap}

Snapshot(shellsets, sccs) ==
    \E e \in ElSet(shellsets), kind \in Kinds, seed \in 0..MaxSeed, wk \in WkSet, scc \in sccs :
        /\ el = e
        /\ st = StOf(e, kind, seed, wk)
        /\ calc = CalcOf(e, scc, seed)

(* mull = MullikenAnalysis(calc) *)
InitPop ==
    /\ Snapshot(ShellListsUpTo(MaxNorb), {FALSE})
    /\ mull = MullikenAnalysis_init(el, st)
    /\ dos = NoEngine
    /\ bond = NoEngine
    /\ res = NoResult

(* dos = DensityOfStates(calc) *)
InitDos ==
    /\ Snapshot(ShellListsUpTo(MaxNorbSmall), {FALSE})
    /\ mull = MullikenAnalysis_init(el, st)
    /\ dos = DensityOfStates_init(el, st)
    /\ bond = NoEngine
    /\ res = NoResult

(* bond = MullikenBondAnalysis(calc) *)
InitBond ==
    /\ Snapshot(ShellListsUpTo(MaxNorbSmall), {FALSE})
    /\ mull = MullikenAnalysis_init(el, st)
    /\ dos = NoEngine
    /\ bond = MullikenBondAnalysis_init(el, st, calc)
    /\ res = NoResult

NextPop == PopQuery \/ TakeResult

NextDos == DosQuery \/ TakeResult

NextBond == BondQuery \/ TakeResult

SpecPop == InitPop /\ [][NextPop]_vars

SpecDos == InitDos /\ [][NextDos]_vars

SpecBond == InitBond /\ [][NextBond]_vars


(* all three engines built on one snapshot *)
Init ==
    /\ Snapshot(ShellListsUpTo(MaxNorbAll), BOOLEAN)
    /\ mull = MullikenAnalysis_init(el, st)
    /\ dos = DensityOfStates_init(el, st)
    /\ bond = MullikenBondAnalysis_init(el, st, calc)
    /\ res = NoResult

Next == PopQuery \/ DosQuery \/ BondQuery \/ TakeResult

Spec == Init /\ [][Next]_vars

(* The end-to-end scenario: one k-point with weight 1, two atoms with one  *)
(* s orbital each, rho = S = identity, H0 = diag(0.5, -0.5).  Energies of  *)
(* this snapshot are counted in units of half a Hartree, so that H0 is     *)
(* diag(1, -1); the eigenstates are the orbitals, lowest eigenvalue first, *)
(* and the lowest one is fully occupied.                                   *)
ScenarioShells == <<<<0>>, <<0>>>>

Identity(n) == [mu \in 0..(n - 1) |-> [nu \in 0..(n - 1) |-> IF mu = nu THEN C(1, 0) ELSE CZero]]

ScenarioSt ==
    [nk |-> 1,
     wk |-> [k \in 0..0 |-> 1],
     norb |-> 2,
     rho |-> [k \in 0..0 |-> Identity(2)],
     S |-> [k \in 0..0 |-> Identity(2)],
     H0 |-> [k \in 0..0 |-> [mu \in 0..1 |-> [nu \in 0..1 |->
                IF mu # nu THEN CZero ELSE IF mu = 0 THEN C(1, 0) ELSE C(0 - 1, 0)]]],
     wf |-> [k \in 0..0 |-> [a \in 0..1 |-> [mu \in 0..1 |->
                IF mu = 1 - a THEN C(1, 0) ELSE CZero]]],
     e |-> [k \in 0..0 |-> [a \in 0..1 |-> IF a = 0 THEN 0 - 1 ELSE 1]],
     f |-> [k \in 0..0 |-> [a \in 0..1 |-> IF a = 0 THEN 2 ELSE 0]],
     dq |-> [I \in 0..1 |-> 0],
     mu |-> 0,
     G |-> [I \in 0..1 |-> [J \in 0..1 |-> 2]]]

InitScenario ==
    /\ el = ElOf(ScenarioShells)
    /\ st = ScenarioSt
    /\ \E scc \in BOOLEAN : calc = CalcOf(el, scc, 0)
    /\ mull = MullikenAnalysis_init(el, st)
    /\ dos = DensityOfStates_init(el, st)
    /\ bond = MullikenBondAnalysis_init(el, st, calc)
    /\ res = NoResult

SpecScenario == InitScenario /\ [][Next]_vars

----------------------------------------------------------------------------
(* Properties *)

(* the invalid-configuration errors *)
InvalidConfiguration == {"AssertionError_occu", "NotImplementedError"}

(* C1: get_covalent_energy with a mode outside 'default', 'orbitals',      *)
(* 'atoms', 'angmom' raises the invalid-configuration error and returns no *)
(* value, whatever i, j, width, window and npts are.                       *)
C1_UnknownModeRaises ==
    (res.op = "get_covalent_energy" /\ res.args[1] \notin CovModes)
        => (res.err = "NotImplementedError" /\ res.value = <<>>)

(* C2: get_density_of_states raises the invalid-configuration error, with  *)
(* no value and before any DOS computation, exactly when occu is requested *)
(* together with broaden or with projected.                                *)
C2_OccuConfigError ==
    res.op = "get_density_of_states" =>
        LET broaden == res.args[1]
            projected == res.args[2]
            occu == res.args[3]
        IN /\ (occu /\ (broaden \/ projected))
                 => (res.err = "AssertionError_occu" /\ res.value = <<>> /\ res.calls = <<>>)
           /\ (~occu \/ (~broaden /\ ~projected))
                 => res.err \notin InvalidConfiguration

C2_Witness ==
    /\ res.op = "get_density_of_states"
    /\ res.args[3] /\ res.args[2] /\ ~res.args[1]
    /\ res.err = "AssertionError_occu"

(* the sum of diag over the orbitals of atom I tagged with angular momentum l *)
DiagByTag(I, l) ==
    LET orbs == el_orbitals_indices(el, I)
        angs == el_orbitals_angmom(el)
    IN SumSeq([n \in 1..Len(orbs) |-> IF angs[orbs[n] + 1] = l THEN mull.diag[orbs[n]] ELSE 0])

(* C3: component l of get_atom_all_angmom_mulliken(I) is the sum of diag   *)
(* over exactly the orbitals of I tagged l, for every shell combination.   *)
C3_AngmomByTag ==
    res.op = "get_atom_all_angmom_mulliken" =>
        \A l \in 0..2 : res.value[l + 1] = DiagByTag(res.args[1], l)

(* C4: the three components of get_atom_all_angmom_mulliken(I) sum to      *)
(* get_atom_mulliken(I); a single-orbital atom has zero p and d components *)
(* and no error.                                                           *)
C4_AngmomSumsToAtom ==
    res.op = "get_atom_all_angmom_mulliken" =>
        /\ res.err = "none"
        /\ res.value[1] + res.value[2] + res.value[3] = get_atom_mulliken(res.args[1])
        /\ el_no(el, res.args[1]) = 1 => (res.value[2] = 0 /\ res.value[3] = 0)

C4_Witness ==
    /\ res.op = "get_atom_all_angmom_mulliken"
    /\ el_no(el, res.args[1]) > 4
    /\ res.value[1] # 0 /\ res.value[2] # 0 /\ res.value[3] # 0

(* sum over nu of wf[k,a,nu]*S[k][mu,nu] *)
WfS(k, a, mu) ==
    CSumSeq([nu \in 1..st.norb |-> CMul(st.wf[k][a][nu - 1], st.S[k][mu][nu - 1])])

(* C5 as stated: aux[k,a,mu] = Re( wf[k,a,mu] * sum_nu wf[k,a,nu]*S[k][mu,nu] ), *)
(* no conjugate on the leading factor.                                     *)
C5_AuxNoConj ==
    Idle => \A k \in KIdx, a \in OrbIdx, mu \in OrbIdx :
        mull.aux[k][a][mu] = CMul(st.wf[k][a][mu], WfS(k, a, mu)).re

(* C5 amended: aux[k,a,mu] = Re( conj(wf[k,a,mu]) * sum_nu wf[k,a,nu]*S[k][mu,nu] ) *)
C5_AuxConj ==
    Idle => \A k \in KIdx, a \in OrbIdx, mu \in OrbIdx :
        mull.aux[k][a][mu] = CMul(CConj(st.wf[k][a][mu]), WfS(k, a, mu)).re

C5_Witness ==
    \E k \in KIdx, a \in OrbIdx, mu \in OrbIdx :
        /\ st.wf[k][a][mu].im # 0
        /\ WfS(k, a, mu).im # 0
        /\ mull.aux[k][a][mu] # 0
        /\ mull.aux[k][a][mu] # CMul(st.wf[k][a][mu], WfS(k, a, mu)).re

(* C6: no query changes the engine instance or the input snapshot.        *)
C6_NoMutation == [][UNCHANGED <<el, st, calc, mull, dos, bond>>]_vars

(* the eigenstates (k, a) get_covalent_energy keeps for a window *)
CovStates(window) ==
    SelectSeq(AllStates, LAMBDA ka : /\ CovBounds(window)[1] <= st.e[ka[1]][ka[2]] - st.mu
                                     /\ st.e[ka[1]][ka[2]] - st.mu <= CovBounds(window)[2])

(* sum of wk*wf[k,a,m]*conj(wf[k,a,n])*HS[k][n,m] over m in oi and n in oj *)
CovPairSum(k, a, oi, oj) ==
    CScale(mull.wk[k],
           CSumSeq([m \in 1..Len(oi) |-> CSumSeq([n \in 1..Len(oj) |->
               CMul(CMul(st.wf[k][a][oi[m]], CConj(st.wf[k][a][oj[n]])), bond.HS[k][oj[n]][oi[m]])])]))

(* the complex quantities the bonding queries reduce to a real number *)
RawMayer(i, j) ==
    CSumSeq([k \in 1..mull.nk |->
        CScale(mull.wk[k - 1],
               CSumSeq([m \in 1..el_no(el, i) |-> CSumSeq([n \in 1..el_no(el, j) |->
                   CMul(bond.rhoSk[k - 1][el_o1(el, i) + m - 1][el_o1(el, j) + n - 1],
                        bond.rhoSk[k - 1][el_o1(el, j) + n - 1][el_o1(el, i) + m - 1])])]))])

RawBlock(i, j) ==
    CSumSeq([k \in 1..mull.nk |->
        CScale(mull.wk[k - 1],
               CSumSeq([m \in 1..el_no(el, i) |-> CSumSeq([n \in 1..el_no(el, j) |->
                   bond.rhoM[k - 1][el_o1(el, i) + m - 1][el_o1(el, j) + n - 1]])]))])

RawCov(mode, k, a, i, j) ==
    CASE mode = "default" ->
            CovPairSum(k, a, [m \in 1..st.norb |-> m - 1], [m \in 1..st.norb |-> m - 1])
      [] mode = "orbitals" -> CovPairSum(k, a, <<i>>, <<j>>)
      [] mode = "atoms" ->
            CovPairSum(k, a, el_orbitals_indices(el, i), el_orbitals_indices(el, j))
      [] mode = "angmom" -> CovPairSum(k, a, lorbs(i), lorbs(j))

(* C7: every bonding query that returns a real number ends in the          *)
(* numerical-integrity error whenever the complex quantity it reduces has  *)
(* a non-negligible imaginary part.                                        *)
C7_ImagAlwaysChecked ==
    /\ (res.op = "get_mayer_bond_order" /\ res.args[3] /\ RawMayer(res.args[1], res.args[2]).im # 0)
          => res.err = "AssertionError_imag"
    /\ (res.op = "get_atom_energy" /\ RawBlock(res.args[1], res.args[1]).im # 0)
          => res.err = "AssertionError_imag"
    /\ (res.op = "get_bond_energy" /\ RawBlock(res.args[1], res.args[2]).im # 0)
          => res.err = "AssertionError_imag"
    /\ (/\ res.op = "get_covalent_energy"
        /\ res.args[1] \in CovModes
        /\ \E n \in 1..Len(CovStates(res.args[5])) :
              RawCov(res.args[1], CovStates(res.args[5])[n][1], CovStates(res.args[5])[n][2],
                     res.args[2], res.args[3]).im # 0)
          => res.err = "AssertionError_imag"

(* C8: get_local_density_of_states(projected=True) completes, and the sum  *)
(* of its projected array over the angular-momentum axis equals the        *)
(* unprojected curve of every atom at every grid point, for every width    *)
(* and window.                                                             *)
C8_ProjectedSumsToLdos ==
    (res.op = "get_local_density_of_states" /\ res.args[1])
        => /\ res.err = "none"
           /\ \A i \in 1..mull.N : \A g \in 1..res.args[4] :
                 res.value[2][i][g]
                     = res.value[3][i][1][g] + res.value[3][i][2][g] + res.value[3][i][3][g]

(* C9: in mode 'atoms' every eigenstate of the window gets, for i = j, the *)
(* k-weighted sum of wf[k,a,m]*conj(wf[k,a,n])*HS[k][n,m] over the orbital *)
(* pairs of atom i counted once, and for i # j twice the real part of the  *)
(* k-weighted sum over m in atom i and n in atom j (returned in eV).       *)
C9_AtomsMode ==
    (/\ res.op = "get_covalent_energy"
     /\ res.args[1] = "atoms"
     /\ res.args[4] = None
     /\ res.err = "none")
        => LET i == res.args[2]
               j == res.args[3]
               kal == CovStates(res.args[5])
               pair(n) == CovPairSum(kal[n][1], kal[n][2],
                                     el_orbitals_indices(el, i), el_orbitals_indices(el, j))
           IN /\ Len(res.value[2]) = Len(kal)
              /\ \A n \in 1..Len(kal) :
                    IF i = j
                    THEN pair(n).im = 0 /\ res.value[2][n] = Hartree * pair(n).re
                    ELSE res.value[2][n] = Hartree * 2 * pair(n).re

C9_Witness ==
    /\ res.op = "get_covalent_energy"
    /\ res.args[1] = "atoms"
    /\ res.args[4] = None
    /\ res.err = "none"
    /\ res.args[2] # res.args[3]
    /\ el_no(el, res.args[2]) + el_no(el, res.args[3]) > 2
    /\ \E n \in 1..Len(res.value[2]) : res.value[2][n] # 0

(* C10: get_mayer_bond_order(i, j) = get_mayer_bond_order(j, i) whenever   *)
(* both calls return.                                                      *)
C10_MayerSymmetric ==
    (res.op = "get_mayer_bond_order" /\ res.err = "none")
        => LET swapped == get_mayer_bond_order(res.args[2], res.args[1], res.args[3])
           IN swapped.err = "none" => swapped.value = res.value

C10_Witness ==
    /\ res.op = "get_mayer_bond_order"
    /\ res.err = "none"
    /\ res.args[1] # res.args[2]
    /\ res.value[1] # 0
    /\ get_mayer_bond_order(res.args[2], res.args[1], res.args[3]).err = "none"
    /\ \E k \in KIdx : bond.rhoSk[k] # Transpose(bond.rhoSk[k], st.norb)

(* C11 as stated: in the end-to-end scenario (wk = [1], two one-orbital    *)
(* atoms, rho = S = identity, H0 = diag(0.5, -0.5)) get_atom_mulliken      *)
(* gives 1 for atom 0 and 0 for atom 1.                                    *)
C11_ScenarioPopulation ==
    res.op = "get_atom_mulliken" =>
        res.value = <<IF res.args[1] = 0 THEN 1 ELSE 0>>

(* C11 amended: in the end-to-end scenario get_atom_mulliken gives 1 for   *)
(* atom 0 and 1 for atom 1.                                                *)
C11_ScenarioPopulationOnes ==
    res.op = "get_atom_mulliken" => (res.err = "none" /\ res.value = <<1>>)

C11_Witness ==
    /\ res.op = "get_atom_mulliken"
    /\ res.args[1] = 1
    /\ res.value = <<1>>
    /\ st.nk = 1 /\ st.wk[0] = 1 /\ el_N(el) = 2 /\ st.norb = 2
    /\ st.rho[0] = Identity(2) /\ st.S[0] = Identity(2)
    /\ st.H0[0][0][0] = C(1, 0) /\ st.H0[0][1][1] = C(0 - 1, 0)

(* sum over k of wk[k] * Re( sum over nu of rho[k][mu,nu]*S[k][nu,mu] ) *)
DiagOfState(mu) ==
    SumSeq([k \in 1..st.nk |->
        st.wk[k - 1] * CSumSeq([nu \in 1..st.norb |->
            CMul(st.rho[k - 1][mu][nu - 1], st.S[k - 1][nu - 1][mu])]).re])

(* C12: the populations get_atom_mulliken(I) of all atoms I add up to the  *)
(* sum over all orbitals mu of                                             *)
(* diag[mu] = sum_k wk[k] * Re( sum_nu rho[k][mu,nu]*S[k][nu,mu] ),        *)
(* the per-atom orbital ranges being contiguous and a partition of         *)
(* 0..norb-1.                                                              *)
C12_PopulationConserved ==
    res.op = "get_atom_mulliken" =>
        LET I == res.args[1]
            others == SumSeq([n \in 1..el_N(el) |->
                          IF n - 1 = I THEN 0 ELSE get_atom_mulliken(n - 1)])
        IN res.value[1] + others = SumSeq([m \in 1..st.norb |-> DiagOfState(m - 1)])

C12_Witness ==
    /\ res.op = "get_atom_mulliken"
    /\ el_N(el) = 2 /\ st.nk = 2
    /\ el_no(el, 0) > 1 /\ el_no(el, 1) > 1
    /\ \E k \in KIdx : st.S[k] # Transpose(st.S[k], st.norb)
    /\ \E k \in KIdx, mu \in OrbIdx, nu \in OrbIdx : st.rho[k][mu][nu].im # 0
    /\ res.value[1] # 0
    /\ get_atom_mulliken(1 - res.args[1]) # 0
    /\ res.value[1] + get_atom_mulliken(1 - res.args[1]) # 0

(* HS[k] is Hermitian for every k *)
HSHermitian ==
    \A k \in KIdx, m \in OrbIdx, n \in OrbIdx : bond.HS[k][m][n] = CConj(bond.HS[k][n][m])

(* the unbroadened mode 'atoms' result for atoms i, j and a window *)
AtomsCov(i, j, window) == get_covalent_energy("atoms", i, j, None, window, 2)

(* C13: with HS[k] Hermitian for every k, the mode 'default' covalent      *)
(* energy of every eigenstate of the window is the sum of the mode 'atoms' *)
(* values over all atoms (i = j) plus the sum of the mode 'atoms' values   *)
(* over all atom pairs i < j, for the same window.                         *)
C13_DefaultIsSumOfAtoms ==
    (/\ res.op = "get_covalent_energy"
     /\ res.args[1] = "default"
     /\ res.args[4] = None
     /\ HSHermitian)
        => LET window == res.args[5]
               N == el_N(el)
               pairs == Flatten([i \in 1..N |-> [j \in 1..(N - i + 1) |-> <<i - 1, i + j - 2>>]])
           IN /\ res.err = "none"
              /\ \A p \in 1..Len(pairs) : AtomsCov(pairs[p][1], pairs[p][2], window).err = "none"
              /\ \A n \in 1..Len(res.value[2]) :
                    res.value[2][n]
                        = SumSeq([p \in 1..Len(pairs) |->
                              AtomsCov(pairs[p][1], pairs[p][2], window).value[2][n]])

C13_Witness ==
    /\ res.op = "get_covalent_energy"
    /\ res.args[1] = "default"
    /\ res.args[4] = None
    /\ res.err = "none"
    /\ HSHermitian
    /\ el_N(el) = 2 /\ st.nk = 2
    /\ \E k \in KIdx, m \in OrbIdx, n \in OrbIdx : bond.HS[k][m][n].im # 0
    /\ \E n \in 1..Len(res.value[2]) :
          /\ res.value[2][n] # 0
          /\ AtomsCov(0, 1, res.args[5]).value[2][n] # 0
          /\ AtomsCov(0, 0, res.args[5]).value[2][n] # 0
          /\ AtomsCov(1, 1, res.args[5]).value[2][n] # 0

====
